---- MODULE Spec2Model ----
(***************************************************************************)
(* Client-side form scripts of erpnext:                                    *)
(*   - Financial Report Template form: refresh, validate and the helper    *)
(*     validate_formulas (financial_report_template.js)                    *)
(*   - Event form: refresh and the add_employees_as_participants flow      *)
(*     (public/js/event.js)                                                *)
(* JavaScript values are records [t |-> type tag, v |-> payload]; a string *)
(* is a sequence of text pieces, one piece per character where the         *)
(* characters matter (formulas, reference codes).                          *)
(***************************************************************************)
EXTENDS Integers, Sequences, FiniteSets, TLC

VARIABLES
    phase,               \* lifecycle position of the open form
    doc,                 \* frm.doc of the Financial Report Template form
    dashboard,           \* comments added with frm.dashboard.add_comment
    msgs,                \* messages shown with frappe.msgprint, in order
    error,               \* exception that left the validate handler
    row_codes,           \* the local row_codes of validate_formulas
    custom_buttons,      \* Event form: buttons added with add_custom_button
    clicks,              \* Event form: "Add Employees" clicks so far
    calls,               \* Event form: frappe.call requests in flight
    prompts,             \* Event form: open frappe.prompt dialogs
    event_participants   \* Event form: frm.doc.event_participants

vars == <<phase, doc, dashboard, msgs, error, row_codes,
          custom_buttons, clicks, calls, prompts, event_participants>>

template_vars == <<doc, dashboard, msgs, error, row_codes>>
event_vars == <<custom_buttons, clicks, calls, prompts, event_participants>>

----------------------------------------------------------------------------
(* Bounds *)

MaxRows == 2
MaxFormulaLen == 2
MaxCodeLen == 2
MaxClicks == 3

----------------------------------------------------------------------------
(* JavaScript values *)

Undefined == [t |-> "undefined", v |-> <<>>]
Null == [t |-> "null", v |-> <<>>]
Str(s) == [t |-> "string", v |-> s]
Arr(a) == [t |-> "array", v |-> a]

\* ToBoolean: undefined, null and "" are falsy; every array is truthy
Truthy(x) ==
    CASE x.t = "undefined" -> FALSE
      [] x.t = "null" -> FALSE
      [] x.t = "string" -> x.v # <<>>
      [] OTHER -> TRUE

\* the === operator on the values used here
StrictEq(a, b) == a.t = b.t /\ a.v = b.v

SeqsUpTo(S, n) == UNION {[1..k -> S] : k \in 0..n}

----------------------------------------------------------------------------
(* Financial Report Template: inputs *)

FormulaChars == {"(", ")", "A"}
CodeChars == {"A"}

Formulas == {Undefined} \cup {Str(s) : s \in SeqsUpTo(FormulaChars, MaxFormulaLen)}
Codes == {Undefined} \cup {Str(s) : s \in SeqsUpTo(CodeChars, MaxCodeLen)}

FormulaCalculation == Str(<<"Formula/Calculation">>)
RowTypes == {Undefined, FormulaCalculation, Str(<<"Account Data">>)}

Rows == [reference_code : Codes, row_type : RowTypes, calculation_formula : Formulas]

Templates ==
    [is_standard : BOOLEAN,
     rows : {Undefined, Null} \cup {Arr(s) : s \in SeqsUpTo(Rows, MaxRows)}]

----------------------------------------------------------------------------
(* Financial Report Template: validate and validate_formulas *)

MissingRowsMsg ==
    [text |-> "At least one row is required for a financial report template",
     args |-> <<>>]

UnbalancedText == "Formula in row {0} has unbalanced parentheses"
UnknownCodeText == "Formula in row {0} references non-existent code: {1}"

\* variant: the message cites the 0-based index
UnbalancedMsg_zero_based(i) == [text |-> UnbalancedText, args |-> <<i>>]

\* __(UnbalancedText, [i + 1]) for the forEach index i (0-based)
UnbalancedMsg(i) == [text |-> UnbalancedText, args |-> <<i + 1>>]

\* __(UnknownCodeText, [i + 1, code])
UnknownCodeMsg(i, code) == [text |-> UnknownCodeText, args |-> <<i + 1, code.v>>]

\* (s.match(/ch/g) || []).length
Occurrences(s, ch) == Cardinality({k \in 1..Len(s) : s[k] = ch})

open_count(formula) == Occurrences(formula.v, "(")
close_count(formula) == Occurrences(formula.v, ")")

\* variant: a nesting-aware balance check (no prefix closes more than it opens)
unbalanced_nesting(formula) ==
    \/ open_count(formula) # close_count(formula)
    \/ \E n \in 1..Len(formula.v) :
          Occurrences(SubSeq(formula.v, 1, n), ")") > Occurrences(SubSeq(formula.v, 1, n), "(")

\* open_count !== close_count
unbalanced(formula) == open_count(formula) # close_count(formula)

\* String.prototype.includes
StrIncludes(s, sub) ==
    \E k \in 0..(Len(s.v) - Len(sub.v)) : SubSeq(s.v, k + 1, k + Len(sub.v)) = sub.v

\* Array.prototype.includes
ArrIncludes(arr, x) == \E j \in 1..Len(arr) : StrictEq(arr[j], x)

\* variant: the membership test is dropped
missing_code_no_membership(formula, code, codes) == StrIncludes(formula, code)

\* variant: the membership test is not negated
missing_code_not_negated(formula, code, codes) ==
    StrIncludes(formula, code) /\ ArrIncludes(codes, code)

\* row.calculation_formula.includes(code) && !row_codes.includes(code)
missing_code(formula, code, codes) ==
    StrIncludes(formula, code) /\ ~ArrIncludes(codes, code)

\* variant: no .filter(Boolean)
compute_row_codes_unfiltered(rows) == [j \in 1..Len(rows) |-> rows[j].reference_code]

\* frm.doc.rows.map((r) => r.reference_code).filter(Boolean)
compute_row_codes(rows) ==
    SelectSeq([j \in 1..Len(rows) |-> rows[j].reference_code], Truthy)

\* row_codes.forEach((code) => ...) from the k-th code on
RECURSIVE code_scan(_, _, _, _)
code_scan(row, i, codes, k) ==
    IF k > Len(codes) THEN <<>>
    ELSE (IF missing_code(row.calculation_formula, codes[k], codes)
             THEN <<UnknownCodeMsg(i, codes[k])>>
             ELSE <<>>)
         \o code_scan(row, i, codes, k + 1)

\* the forEach callback (row, i) => ... : the messages it prints
row_callback(row, i, codes) ==
    IF ~Truthy(row.calculation_formula) THEN <<>>
    ELSE (IF unbalanced(row.calculation_formula) THEN <<UnbalancedMsg(i)>> ELSE <<>>)
         \o (IF ~StrictEq(row.row_type, FormulaCalculation) THEN <<>>
             ELSE code_scan(row, i, codes, 1))

\* frm.doc.rows.forEach(...) from index i (0-based) on
RECURSIVE rows_scan(_, _, _)
rows_scan(rows, codes, i) ==
    IF i >= Len(rows) THEN <<>>
    ELSE row_callback(rows[i + 1], i, codes) \o rows_scan(rows, codes, i + 1)

\* validate_formulas(frm): reading .map of undefined or null throws
validate_formulas(d) ==
    IF d.rows.t # "array"
    THEN [error |-> "TypeError", row_codes |-> <<>>, msgs |-> <<>>]
    ELSE LET codes == compute_row_codes(d.rows.v) IN
         [error |-> "none", row_codes |-> codes,
          msgs |-> rows_scan(d.rows.v, codes, 0)]

\* variant: only an absent rows value counts as missing
missing_rows_absent_only(d) == ~Truthy(d.rows)

\* !frm.doc.rows || frm.doc.rows.length === 0
missing_rows(d) == ~Truthy(d.rows) \/ Len(d.rows.v) = 0

\* refresh(frm) of the Financial Report Template form
refresh ==
    /\ phase = "loaded"
    /\ dashboard' = IF doc.is_standard THEN Append(dashboard, "yellow") ELSE dashboard
    /\ phase' = "refreshed"
    /\ UNCHANGED <<doc, msgs, error, row_codes>>
    /\ UNCHANGED event_vars

\* variant: validate drops the rows without a formula from the document
validate_pruning ==
    /\ phase = "refreshed"
    /\ LET r == validate_formulas(doc) IN
         /\ msgs' = msgs \o (IF missing_rows(doc) THEN <<MissingRowsMsg>> ELSE <<>>)
                         \o r.msgs
         /\ error' = r.error
         /\ row_codes' = r.row_codes
    /\ doc' = IF doc.rows.t = "array"
               THEN [doc EXCEPT !.rows = Arr(SelectSeq(doc.rows.v,
                                    LAMBDA row : Truthy(row.calculation_formula)))]
               ELSE doc
    /\ phase' = "validated"
    /\ UNCHANGED dashboard
    /\ UNCHANGED event_vars

\* validate(frm) of the Financial Report Template form
validate ==
    /\ phase = "refreshed"
    /\ LET r == validate_formulas(doc) IN
         /\ msgs' = msgs \o (IF missing_rows(doc) THEN <<MissingRowsMsg>> ELSE <<>>)
                         \o r.msgs
         /\ error' = r.error
         /\ row_codes' = r.row_codes
    /\ phase' = "validated"
    /\ UNCHANGED <<doc, dashboard>>
    /\ UNCHANGED event_vars

Init ==
    /\ phase = "loaded"
    /\ doc \in Templates
    /\ dashboard = <<>>
    /\ msgs = <<>>
    /\ error = "none"
    /\ row_codes = <<>>
    /\ custom_buttons = {}
    /\ clicks = 0
    /\ calls = 0
    /\ prompts = <<>>
    /\ event_participants = <<>>

Next == refresh \/ validate

Spec == Init /\ [][Next]_vars

----------------------------------------------------------------------------
(* Event form: refresh and add_employees_as_participants *)

Employees ==
    <<<<Str(<<"HR-EMP-00001">>), Str(<<"Asha">>)>>,
      <<Str(<<"HR-EMP-00002">>), Str(<<"Ravi">>)>>>>

\* r.message of get_employees_for_event_participants: absent, or a list of
\* [name, employee_name] pairs
Messages == {Undefined} \cup {Arr(SubSeq(Employees, 1, n)) : n \in 0..Len(Employees)}

ExistingParticipant ==
    [reference_doctype |-> Str(<<"Lead">>), reference_docname |-> Str(<<"CRM-LEAD-00001">>)]

\* r.message.map(function (emp) { return {label: emp[1], value: emp[0]} })
options_of(message) ==
    [j \in 1..Len(message.v) |-> [label |-> message.v[j][2], value |-> message.v[j][1]]]

\* what the Select of an open prompt can hand to the prompt callback
Selectable(p) == {Undefined} \cup {p.options[j].value : j \in 1..Len(p.options)}

RemoveAt(s, k) == SubSeq(s, 1, k - 1) \o SubSeq(s, k + 1, Len(s))

\* refresh(frm) of the Event form: the custom buttons it adds
event_refresh ==
    /\ phase = "loaded"
    /\ custom_buttons' = {"Add Leads", "Add Customers", "Add Suppliers",
                          "Add Employees", "Add Sales Partners"}
    /\ phase' = "refreshed"
    /\ UNCHANGED <<clicks, calls, prompts, event_participants>>
    /\ UNCHANGED template_vars

\* "Add Employees" clicked: frm.trigger("add_employees_as_participants")
\* issues the frappe.call
add_employees_as_participants ==
    /\ "Add Employees" \in custom_buttons
    /\ clicks < MaxClicks
    /\ clicks' = clicks + 1
    /\ calls' = calls + 1
    /\ UNCHANGED <<phase, custom_buttons, prompts, event_participants>>
    /\ UNCHANGED template_vars

\* callback: function (r) of the frappe.call
call_callback(message) ==
    /\ calls > 0
    /\ calls' = calls - 1
    /\ prompts' = IF Truthy(message)
                     THEN Append(prompts, [message |-> message, options |-> options_of(message)])
                     ELSE prompts
    /\ UNCHANGED <<phase, custom_buttons, clicks, event_participants>>
    /\ UNCHANGED template_vars

\* variant: no if (data.employee) guard
prompt_callback_unguarded(k, employee) ==
    /\ k \in 1..Len(prompts)
    /\ employee \in Selectable(prompts[k])
    /\ event_participants' =
           Append(event_participants,
                  [reference_doctype |-> Str(<<"Employee">>),
                   reference_docname |-> employee])
    /\ prompts' = RemoveAt(prompts, k)
    /\ UNCHANGED <<phase, custom_buttons, clicks, calls>>
    /\ UNCHANGED template_vars

\* function (data) of the k-th open frappe.prompt, submitted with data.employee
prompt_callback(k, employee) ==
    /\ k \in 1..Len(prompts)
    /\ employee \in Selectable(prompts[k])
    /\ event_participants' =
           IF Truthy(employee)
           THEN Append(event_participants,
                       [reference_doctype |-> Str(<<"Employee">>),
                        reference_docname |-> employee])
           ELSE event_participants
    /\ prompts' = RemoveAt(prompts, k)
    /\ UNCHANGED <<phase, custom_buttons, clicks, calls>>
    /\ UNCHANGED template_vars

InitEvent ==
    /\ phase = "loaded"
    /\ doc = [is_standard |-> FALSE, rows |-> Arr(<<>>)]
    /\ dashboard = <<>>
    /\ msgs = <<>>
    /\ error = "none"
    /\ row_codes = <<>>
    /\ custom_buttons = {}
    /\ clicks = 0
    /\ calls = 0
    /\ prompts = <<>>
    /\ event_participants \in {<<>>, <<ExistingParticipant>>}

NextEvent ==
    \/ event_refresh
    \/ add_employees_as_participants
    \/ \E message \in Messages : call_callback(message)
    \/ \E k \in 1..MaxClicks : \E employee \in {Undefined} \cup {Employees[j][1] : j \in 1..Len(Employees)} :
          prompt_callback(k, employee)

SpecEvent == InitEvent /\ [][NextEvent]_vars

----------------------------------------------------------------------------
(* Properties of the Financial Report Template validator *)

Validated == phase = "validated"
RowsPresent == doc.rows.t = "array"
NumRows == Len(doc.rows.v)

\* the row at 0-based position p
RowAt(p) == doc.rows.v[p + 1]

IsUnbalancedMsg(m) == m.text = UnbalancedText
IsUnknownCodeMsg(m) == m.text = UnknownCodeText
Cites(m, p) == m.args # <<>> /\ m.args[1] = p + 1

\* number of printed UnbalancedParentheses messages citing row p + 1
UnbalancedCount(p) ==
    Cardinality({k \in 1..Len(msgs) : IsUnbalancedMsg(msgs[k]) /\ Cites(msgs[k], p)})

CountsDiffer(row) ==
    /\ Truthy(row.calculation_formula)
    /\ open_count(row.calculation_formula) # close_count(row.calculation_formula)

\* first occurrences of a sequence, in order
RECURSIVE Dedup(_)
Dedup(codes) ==
    IF codes = <<>> THEN <<>>
    ELSE LET front == Dedup(SubSeq(codes, 1, Len(codes) - 1)) IN
         IF ArrIncludes(front, codes[Len(codes)]) THEN front
         ELSE Append(front, codes[Len(codes)])

\* C1: for a template whose rows sequence is present and empty, validate
\* prints exactly one message, the MissingRows message.
C1_EmptyRowsOnlyMissingRows ==
    (Validated /\ RowsPresent /\ NumRows = 0) => msgs = <<MissingRowsMsg>>

C1_Witness ==
    Validated /\ RowsPresent /\ NumRows = 0 /\ Len(msgs) = 1 /\ error = "none"

\* C2: for a template whose rows value is absent (undefined or null),
\* validate prints exactly the MissingRows message and then finishes
\* normally, as for an empty sequence.
C2_AbsentRowsAsEmpty ==
    (Validated /\ ~RowsPresent) => (msgs = <<MissingRowsMsg>> /\ error = "none")

\* C3: for every template the validate handler runs to completion without
\* raising an exception.
C3_ValidateNeverRaises == Validated => error = "none"

\* C4: a row whose non-empty formula has as many "(" as ")" gets no
\* UnbalancedParentheses message, whatever the order of the parentheses.
C4_EqualCountsNoUnbalanced ==
    (Validated /\ RowsPresent) =>
        \A p \in 0..(NumRows - 1) :
            (Truthy(RowAt(p).calculation_formula) /\ ~CountsDiffer(RowAt(p)))
                => UnbalancedCount(p) = 0

C4_Witness ==
    /\ Validated /\ RowsPresent
    /\ \E p \in 0..(NumRows - 1) :
          /\ RowAt(p).calculation_formula = Str(<<")", "(">>)
          /\ UnbalancedCount(p) = 0

\* C5: a row at 0-based position p, of any row_type, whose non-empty formula
\* has different numbers of "(" and ")" gets exactly one
\* UnbalancedParentheses message, citing p + 1; no such message cites a row
\* whose counts are equal or whose formula is empty.
C5_UnequalCountsOneMessage ==
    (Validated /\ RowsPresent) =>
        /\ \A p \in 0..(NumRows - 1) :
              UnbalancedCount(p) = IF CountsDiffer(RowAt(p)) THEN 1 ELSE 0
        /\ \A k \in 1..Len(msgs) :
              IsUnbalancedMsg(msgs[k]) =>
                  \E p \in 0..(NumRows - 1) : Cites(msgs[k], p) /\ CountsDiffer(RowAt(p))

C5_Witness ==
    /\ Validated /\ RowsPresent /\ NumRows >= 2
    /\ ~CountsDiffer(RowAt(0))
    /\ CountsDiffer(RowAt(1))
    /\ ~StrictEq(RowAt(1).row_type, FormulaCalculation)
    /\ msgs = <<[text |-> UnbalancedText, args |-> <<2>>]>>

\* C6: the validator never prints an UnknownReferenceCode message.
C6_NoUnknownReferenceCode ==
    \A k \in 1..Len(msgs) : ~IsUnknownCodeMsg(msgs[k])

C6_Witness ==
    /\ Validated /\ RowsPresent /\ NumRows >= 2
    /\ RowAt(0).reference_code = Str(<<"A">>)
    /\ RowAt(1).reference_code = Str(<<"A", "A">>)
    /\ StrictEq(RowAt(1).row_type, FormulaCalculation)
    /\ RowAt(1).calculation_formula = Str(<<"A", "A">>)
    /\ msgs = <<>>

\* C7: missing row fields count as absent values: a row without formula
\* gets no message, a row without reference_code adds nothing to row_codes,
\* a row without row_type gets no UnknownReferenceCode message, and the
\* validator does not raise.
C7_MissingFieldsAreAbsent ==
    (Validated /\ RowsPresent) =>
        /\ error = "none"
        /\ \A p \in 0..(NumRows - 1) :
              ~Truthy(RowAt(p).calculation_formula)
                  => \A k \in 1..Len(msgs) : ~Cites(msgs[k], p)
        /\ Len(row_codes) =
              Cardinality({p \in 0..(NumRows - 1) : Truthy(RowAt(p).reference_code)})
        /\ \A j \in 1..Len(row_codes) : Truthy(row_codes[j])
        /\ \A p \in 0..(NumRows - 1) :
              RowAt(p).row_type = Undefined
                  => \A k \in 1..Len(msgs) :
                        ~(IsUnknownCodeMsg(msgs[k]) /\ Cites(msgs[k], p))

C7_Witness ==
    /\ Validated /\ RowsPresent /\ NumRows >= 2
    /\ RowAt(0) = [reference_code |-> Undefined, row_type |-> Undefined,
                   calculation_formula |-> Undefined]
    /\ RowAt(1).reference_code = Str(<<>>)
    /\ RowAt(1).row_type = Undefined
    /\ CountsDiffer(RowAt(1))
    /\ row_codes = <<>>
    /\ error = "none"

\* C8: the messages printed are the same whether row_codes keeps duplicate
\* reference codes or has them removed.
C8_DuplicatesDoNotMatter ==
    (Validated /\ RowsPresent) =>
        msgs = (IF NumRows = 0 THEN <<MissingRowsMsg>> ELSE <<>>)
               \o rows_scan(doc.rows.v, Dedup(compute_row_codes(doc.rows.v)), 0)

C8_Witness ==
    /\ Validated /\ RowsPresent
    /\ Len(row_codes) >= 2
    /\ row_codes[1] = row_codes[2]
    /\ \E p \in 0..(NumRows - 1) :
          /\ StrictEq(RowAt(p).row_type, FormulaCalculation)
          /\ Truthy(RowAt(p).calculation_formula)
          /\ StrIncludes(RowAt(p).calculation_formula, row_codes[1])

\* C9: the validate handler leaves the template (rows, their order and
\* fields, is_standard) unchanged.
C9_ValidateLeavesDocUnchanged ==
    [][(phase = "refreshed" /\ phase' = "validated") => doc' = doc]_vars

C9_Witness ==
    /\ Validated /\ RowsPresent /\ NumRows >= 2
    /\ doc.is_standard
    /\ ~Truthy(RowAt(0).calculation_formula)
    /\ msgs # <<>>

----------------------------------------------------------------------------
(* Properties of the Event form *)

EmployeeRow(employee) ==
    [reference_doctype |-> Str(<<"Employee">>), reference_docname |-> employee]

\* C10: event_participants changes only by one prompt submission: a prompt
\* opened for a response with a non-empty message is closed and exactly one
\* row (Employee, selected employee) with a non-empty employee taken from
\* that response is appended; every other step leaves it unchanged.
C10_RowsOnlyFromPromptSubmission ==
    [][event_participants' # event_participants =>
          \E k \in 1..Len(prompts) :
              /\ Truthy(prompts[k].message)
              /\ Len(prompts[k].message.v) > 0
              /\ prompts' = RemoveAt(prompts, k)
              /\ \E j \in 1..Len(prompts[k].message.v) :
                    /\ Truthy(prompts[k].message.v[j][1])
                    /\ event_participants' =
                          Append(event_participants,
                                 EmployeeRow(prompts[k].message.v[j][1]))]_vars

C10_Witness ==
    /\ clicks = MaxClicks
    /\ calls = 0
    /\ prompts = <<>>
    /\ Len(event_participants) = 2
    /\ event_participants[1] = ExistingParticipant
    /\ event_participants[2] = EmployeeRow(Employees[2][1])

====
